---- MODULE Spec2Model ----
(***************************************************************************)
(* scope_gl.h: scoped push/pop macros around OpenGL state calls.           *)
(*                                                                         *)
(* Every scope macro expands to a C for-statement                          *)
(*     for (init-clause; cond; increment) body                             *)
(* whose init-clause issues the query (RESTORE build only) and the entry   *)
(* call, whose cond is (i == 0) and whose increment bumps i and issues the *)
(* exit call.  The model runs that for-statement step by step on a stack   *)
(* of open for-statements, against a GL context that is a store of slots.  *)
(***************************************************************************)
EXTENDS Integers, Sequences, FiniteSets, TLC

\* ---------------------------------------------------------------- bounds
MaxVal == 2          \* object names / enum values are drawn from 0..MaxVal
MaxScopes == 1       \* scope statements opened in one run of Spec
MaxDirect == 1       \* direct (unscoped) GL calls inside the blocks of one run
MaxNest == 2         \* nesting depth explored by SpecNest
MaxSeq == 3          \* scopes opened one after another by SpecSeq

Values == 0..MaxVal
\* what an automatic variable holds when nothing was stored into it
Garbage == Values
\* the bytes of a GLint that a one-byte GLboolean store leaves untouched
GarbageHigh == 0..1

\* ------------------------------------------------------- the GL context
TexTargets ==
  { "GL_TEXTURE_1D", "GL_TEXTURE_2D", "GL_TEXTURE_3D", "GL_TEXTURE_1D_ARRAY",
    "GL_TEXTURE_2D_ARRAY", "GL_TEXTURE_RECTANGLE", "GL_TEXTURE_CUBE_MAP",
    "GL_TEXTURE_CUBE_MAP_ARRAY", "GL_TEXTURE_BUFFER",
    "GL_TEXTURE_2D_MULTISAMPLE", "GL_TEXTURE_2D_MULTISAMPLE_ARRAY" }

\* the context's own pairing of a texture target with its binding slot
GLTexSlot(target) ==
  CASE target = "GL_TEXTURE_1D"                   -> "GL_TEXTURE_BINDING_1D"
    [] target = "GL_TEXTURE_2D"                   -> "GL_TEXTURE_BINDING_2D"
    [] target = "GL_TEXTURE_3D"                   -> "GL_TEXTURE_BINDING_3D"
    [] target = "GL_TEXTURE_1D_ARRAY"             -> "GL_TEXTURE_BINDING_1D_ARRAY"
    [] target = "GL_TEXTURE_2D_ARRAY"             -> "GL_TEXTURE_BINDING_2D_ARRAY"
    [] target = "GL_TEXTURE_RECTANGLE"            -> "GL_TEXTURE_BINDING_RECTANGLE"
    [] target = "GL_TEXTURE_CUBE_MAP"             -> "GL_TEXTURE_BINDING_CUBE_MAP"
    [] target = "GL_TEXTURE_CUBE_MAP_ARRAY"       -> "GL_TEXTURE_BINDING_CUBE_MAP_ARRAY"
    [] target = "GL_TEXTURE_BUFFER"               -> "GL_TEXTURE_BINDING_BUFFER"
    [] target = "GL_TEXTURE_2D_MULTISAMPLE"       -> "GL_TEXTURE_BINDING_2D_MULTISAMPLE"
    [] target = "GL_TEXTURE_2D_MULTISAMPLE_ARRAY" -> "GL_TEXTURE_BINDING_2D_MULTISAMPLE_ARRAY"

BufTargets == { "GL_ARRAY_BUFFER", "GL_SHADER_STORAGE_BUFFER" }
GLBufSlot(target) ==
  CASE target = "GL_ARRAY_BUFFER"          -> "GL_ARRAY_BUFFER_BINDING"
    [] target = "GL_SHADER_STORAGE_BUFFER" -> "GL_SHADER_STORAGE_BUFFER_BINDING"

\* indexed shader-storage binding points
SSBOIndices == {0, 1}
GLIndexedSlot(index) ==
  IF index = 0 THEN "GL_SHADER_STORAGE_BUFFER_BINDING[0]"
               ELSE "GL_SHADER_STORAGE_BUFFER_BINDING[1]"

Caps == { "GL_BLEND" }

ViewSlots  == << "GL_VIEWPORT[0]", "GL_VIEWPORT[1]", "GL_VIEWPORT[2]", "GL_VIEWPORT[3]" >>
ClearSlots == << "GL_COLOR_CLEAR_VALUE[0]", "GL_COLOR_CLEAR_VALUE[1]",
                 "GL_COLOR_CLEAR_VALUE[2]", "GL_COLOR_CLEAR_VALUE[3]" >>

SlotSeq ==
  << "GL_CURRENT_PROGRAM", "GL_VERTEX_ARRAY_BINDING",
     "GL_TEXTURE_BINDING_1D", "GL_TEXTURE_BINDING_2D", "GL_TEXTURE_BINDING_3D",
     "GL_TEXTURE_BINDING_1D_ARRAY", "GL_TEXTURE_BINDING_2D_ARRAY",
     "GL_TEXTURE_BINDING_RECTANGLE", "GL_TEXTURE_BINDING_CUBE_MAP",
     "GL_TEXTURE_BINDING_CUBE_MAP_ARRAY", "GL_TEXTURE_BINDING_BUFFER",
     "GL_TEXTURE_BINDING_2D_MULTISAMPLE", "GL_TEXTURE_BINDING_2D_MULTISAMPLE_ARRAY",
     "GL_ARRAY_BUFFER_BINDING", "GL_SHADER_STORAGE_BUFFER_BINDING",
     "GL_SHADER_STORAGE_BUFFER_BINDING[0]", "GL_SHADER_STORAGE_BUFFER_BINDING[1]",
     "GL_BLEND", "GL_FRAMEBUFFER_BINDING", "GL_RENDERBUFFER_BINDING",
     "COLOR_ATTACHMENT0_TEXTURE", "COLOR_ATTACHMENT0_LEVEL",
     "DEPTH_ATTACHMENT_RENDERBUFFER",
     "GL_VIEWPORT[0]", "GL_VIEWPORT[1]", "GL_VIEWPORT[2]", "GL_VIEWPORT[3]",
     "GL_COLOR_CLEAR_VALUE[0]", "GL_COLOR_CLEAR_VALUE[1]",
     "GL_COLOR_CLEAR_VALUE[2]", "GL_COLOR_CLEAR_VALUE[3]",
     "GL_BLEND_SRC", "GL_BLEND_DST", "GL_BLEND_EQUATION",
     "GL_CULL_FACE_MODE", "GL_FRONT_FACE", "GL_TEXTURE_MIN_FILTER",
     "PROGRAM1_UNIFORM[0]", "PROGRAM2_UNIFORM[1]",
     "PROGRAM1_UNIFORM[1]", "PROGRAM2_UNIFORM[0]" >>

Slots == { SlotSeq[k] : k \in 1..Len(SlotSeq) }

\* set operations of the context: each writes the slots the call addresses
GLSet(c, slot, v) == [c EXCEPT ![slot] = v]
GLSet4(c, ss, v) ==
  [s \in Slots |-> IF \E k \in 1..4 : ss[k] = s
                   THEN v[CHOOSE k \in 1..4 : ss[k] = s] ELSE c[s]]

glUseProgram(c, id)            == GLSet(c, "GL_CURRENT_PROGRAM", id)
glBindVertexArray(c, vao)      == GLSet(c, "GL_VERTEX_ARRAY_BINDING", vao)
\* an enum that names no texture target is rejected and changes nothing
glBindTexture(c, target, tex)  ==
  IF target \in TexTargets THEN GLSet(c, GLTexSlot(target), tex) ELSE c
glBindBuffer(c, target, buf)   ==
  IF target \in BufTargets THEN GLSet(c, GLBufSlot(target), buf) ELSE c
\* binds the indexed point and the generic target
glBindBufferBase(c, target, index, buf) ==
  GLSet(GLSet(c, GLIndexedSlot(index), buf), GLBufSlot(target), buf)
glEnable(c, cap)               == GLSet(c, cap, 1)
glDisable(c, cap)              == GLSet(c, cap, 0)
glBindFramebuffer(c, target, fbo) ==
  IF target = "GL_FRAMEBUFFER" THEN GLSet(c, "GL_FRAMEBUFFER_BINDING", fbo) ELSE c
glFramebufferTexture2D(c, texture, level) ==
  GLSet(GLSet(c, "COLOR_ATTACHMENT0_TEXTURE", texture), "COLOR_ATTACHMENT0_LEVEL", level)
glBindRenderbuffer(c, rb)      == GLSet(c, "GL_RENDERBUFFER_BINDING", rb)
glFramebufferRenderbuffer(c, rb) == GLSet(c, "DEPTH_ATTACHMENT_RENDERBUFFER", rb)
glViewport(c, v)               == GLSet4(c, ViewSlots, v)
glClearColor(c, v)             == GLSet4(c, ClearSlots, v)
glBlendFunc(c, src, dst)       == GLSet(GLSet(c, "GL_BLEND_SRC", src), "GL_BLEND_DST", dst)
glBlendEquation(c, eq)         == GLSet(c, "GL_BLEND_EQUATION", eq)
glCullFace(c, m)               == GLSet(c, "GL_CULL_FACE_MODE", m)
glFrontFace(c, o)              == GLSet(c, "GL_FRONT_FACE", o)
glTexParameter(c, val)         == GLSet(c, "GL_TEXTURE_MIN_FILTER", val)

\* uniforms: programs 1 and 2 are linked programs with two uniform locations
\* each; every other name is no program object
Programs == {1, 2}
UniformSlot(p, l) ==
  CASE p = 1 /\ l = 0 -> "PROGRAM1_UNIFORM[0]"
    [] p = 1 /\ l = 1 -> "PROGRAM1_UNIFORM[1]"
    [] p = 2 /\ l = 0 -> "PROGRAM2_UNIFORM[0]"
    [] p = 2 /\ l = 1 -> "PROGRAM2_UNIFORM[1]"
\* the location the linker gave the named uniform: it differs from program to
\* program, and is -1 when p is no program object
glGetUniformLocation(p, name) ==
  CASE p = 1 -> 0
    [] p = 2 -> 1
    [] OTHER -> 0 - 1
\* reads a uniform of program p; an error leaves the destination as it was
glGetUniformfv(c, p, l, prev) ==
  IF p \in Programs /\ l \in {0, 1} THEN c[UniformSlot(p, l)] ELSE prev
\* writes a uniform of the program that is current; location -1 is ignored,
\* and so is the call when no program is current
glUniform1f(c, l, v) ==
  IF c["GL_CURRENT_PROGRAM"] \in Programs /\ l \in {0, 1}
  THEN GLSet(c, UniformSlot(c["GL_CURRENT_PROGRAM"], l), v) ELSE c
glUniformMatrix4fv(c, l, m) == glUniform1f(c, l, m)

\* query operations: a pname the context does not know raises GL_INVALID_ENUM
\* and leaves the destination as it was (prev)
glGetIntegerv(c, pname, prev) == IF pname \in Slots THEN c[pname] ELSE prev
glGetIntegerv4(c, ss)         == << c[ss[1]], c[ss[2]], c[ss[3]], c[ss[4]] >>
\* stores one GLboolean byte into a GLint whose other bytes keep what they held
glGetBooleanv(c, cap, high)   == c[cap] + 256 * high

\* -------------------------------------------------- scope_gl.h, line 251
\* a switch whose cube-map-array case returns the cube-map binding
_scope_gl_map_texture_target_to_binding_merged(target) ==
  CASE target = "GL_TEXTURE_1D"                   -> "GL_TEXTURE_BINDING_1D"
    [] target = "GL_TEXTURE_2D"                   -> "GL_TEXTURE_BINDING_2D"
    [] target = "GL_TEXTURE_3D"                   -> "GL_TEXTURE_BINDING_3D"
    [] target = "GL_TEXTURE_1D_ARRAY"             -> "GL_TEXTURE_BINDING_1D_ARRAY"
    [] target = "GL_TEXTURE_2D_ARRAY"             -> "GL_TEXTURE_BINDING_2D_ARRAY"
    [] target = "GL_TEXTURE_RECTANGLE"            -> "GL_TEXTURE_BINDING_RECTANGLE"
    [] target = "GL_TEXTURE_CUBE_MAP"             -> "GL_TEXTURE_BINDING_CUBE_MAP"
    [] target = "GL_TEXTURE_CUBE_MAP_ARRAY"       -> "GL_TEXTURE_BINDING_CUBE_MAP"
    [] target = "GL_TEXTURE_BUFFER"               -> "GL_TEXTURE_BINDING_BUFFER"
    [] target = "GL_TEXTURE_2D_MULTISAMPLE"       -> "GL_TEXTURE_BINDING_2D_MULTISAMPLE"
    [] target = "GL_TEXTURE_2D_MULTISAMPLE_ARRAY" -> "GL_TEXTURE_BINDING_2D_MULTISAMPLE_ARRAY"
    [] OTHER                                      -> "0"

_scope_gl_map_texture_target_to_binding(target) ==
  CASE target = "GL_TEXTURE_1D"                   -> "GL_TEXTURE_BINDING_1D"
    [] target = "GL_TEXTURE_2D"                   -> "GL_TEXTURE_BINDING_2D"
    [] target = "GL_TEXTURE_3D"                   -> "GL_TEXTURE_BINDING_3D"
    [] target = "GL_TEXTURE_1D_ARRAY"             -> "GL_TEXTURE_BINDING_1D_ARRAY"
    [] target = "GL_TEXTURE_2D_ARRAY"             -> "GL_TEXTURE_BINDING_2D_ARRAY"
    [] target = "GL_TEXTURE_RECTANGLE"            -> "GL_TEXTURE_BINDING_RECTANGLE"
    [] target = "GL_TEXTURE_CUBE_MAP"             -> "GL_TEXTURE_BINDING_CUBE_MAP"
    [] target = "GL_TEXTURE_CUBE_MAP_ARRAY"       -> "GL_TEXTURE_BINDING_CUBE_MAP_ARRAY"
    [] target = "GL_TEXTURE_BUFFER"               -> "GL_TEXTURE_BINDING_BUFFER"
    [] target = "GL_TEXTURE_2D_MULTISAMPLE"       -> "GL_TEXTURE_BINDING_2D_MULTISAMPLE"
    [] target = "GL_TEXTURE_2D_MULTISAMPLE_ARRAY" -> "GL_TEXTURE_BINDING_2D_MULTISAMPLE_ARRAY"
    [] OTHER                                      -> "0"

\* ------------------------------------------------------------ call sites
\* A call site is one use of a scope_gl...() macro: kind is the macro, t its
\* enum argument (target or capability, "" when it has none), v the tuple of
\* its remaining arguments in source order.
Site(kind, ts, vs) == { [kind |-> kind, t |-> t, v |-> v] : t \in ts, v \in vs }

One  == { <<x>> : x \in Values }
Rects == { << x, (x + 1) % (MaxVal + 1), (x + 2) % (MaxVal + 1), (x + 1) % (MaxVal + 1) >> :
           x \in Values }
\* an enum that is no texture target, passed by mistake
BadTarget == "GL_RENDERBUFFER"

Calls ==
  Site("glUseProgram", {""}, One)
    \cup Site("glBindVertexArray", {""}, One)
    \cup Site("glBindTexture", {"GL_TEXTURE_2D", "GL_TEXTURE_CUBE_MAP", BadTarget}, One)
    \cup Site("glBindBuffer", {"GL_ARRAY_BUFFER"}, One)
    \cup Site("glBindArrayBuffer", {""}, One)
    \cup Site("glEnable", Caps, {<<>>})
    \cup Site("glDisable", Caps, {<<>>})
    \cup Site("glBindFramebuffer", {"GL_FRAMEBUFFER"}, One)
    \cup Site("glFramebufferTexture", {"GL_FRAMEBUFFER"}, { <<x, l>> : x \in Values, l \in 0..1 })
    \cup Site("glBindRenderbuffer", {"GL_RENDERBUFFER"}, One)
    \cup Site("glFramebufferRenderbuffer", {"GL_DEPTH_ATTACHMENT"}, One)
    \cup Site("glViewport", {""}, Rects)
    \cup Site("glClearColor", {""}, Rects)
    \cup Site("glBlendFunc", {""}, { <<x, y>> : x \in Values, y \in Values })
    \cup Site("glBlendEquation", {""}, One)
    \cup Site("glCullFace", {""}, One)
    \cup Site("glFrontFace", {""}, One)
    \cup Site("glBindTexture2D", {""}, One)
    \cup Site("glBindFBO", {""}, One)
    \cup Site("glBindSSBO", {""}, { <<x, b>> : x \in Values, b \in SSBOIndices })
    \cup Site("glTex2DParameter", {"i"}, One)

\* the three _restore_ macros that are written with scope_begin_end_var
PlainInRestore == { "glFramebufferTexture", "glBindRenderbuffer", "glFramebufferRenderbuffer" }

\* --------------------------------------- _restore_* macros, lines 107-230
\* The values the scope-local variables hold once the query part of the
\* init-clause has run.  A variable the query did not store into keeps an
\* indeterminate value.  _restore_glBindBuffer declares old_buf and never
\* reads it; its entry and exit calls name vbo and old_vbo<line>, which the
\* macro does not declare: they resolve to whatever the call site has in
\* scope under those names, recorded here as << vbo, old_vbo >>.
RestoreLocals(call, c) ==
  CASE call.kind = "glUseProgram" ->
         { << glGetIntegerv(c, "GL_CURRENT_PROGRAM", u) >> : u \in Garbage }
    [] call.kind = "glBindVertexArray" ->
         { << glGetIntegerv(c, "GL_VERTEX_ARRAY_BINDING", u) >> : u \in Garbage }
    [] call.kind = "glBindTexture" ->
         { << glGetIntegerv(c, _scope_gl_map_texture_target_to_binding(call.t), u) >> :
           u \in Garbage }
    [] call.kind = "glBindTexture2D" ->
         { << glGetIntegerv(c, "GL_TEXTURE_BINDING_2D", u) >> : u \in Garbage }
    [] call.kind = "glBindBuffer" ->
         { << vbo, old_vbo >> : vbo \in Values, old_vbo \in Values }
    [] call.kind = "glBindArrayBuffer" ->
         { << glGetIntegerv(c, "GL_ARRAY_BUFFER_BINDING", u) >> : u \in Garbage }
    [] call.kind \in {"glEnable", "glDisable"} ->
         { << glGetBooleanv(c, call.t, h) >> : h \in GarbageHigh }
    [] call.kind = "glBindFramebuffer" ->
         { << glGetIntegerv(c, call.t, u) >> : u \in Garbage }
    [] call.kind = "glBindFBO" ->
         { << glGetIntegerv(c, "GL_FRAMEBUFFER_BINDING", u) >> : u \in Garbage }
    [] call.kind \in PlainInRestore -> { <<>> }
    [] call.kind = "glViewport" -> { glGetIntegerv4(c, ViewSlots) }
    [] call.kind = "glClearColor" -> { glGetIntegerv4(c, ClearSlots) }
    [] call.kind = "glBlendFunc" ->
         { << glGetIntegerv(c, "GL_BLEND_SRC", u), glGetIntegerv(c, "GL_BLEND_DST", w) >> :
           u \in Garbage, w \in Garbage }
    [] call.kind = "glBlendEquation" ->
         { << glGetIntegerv(c, "GL_BLEND_EQUATION", u) >> : u \in Garbage }
    [] call.kind = "glCullFace" ->
         { << glGetIntegerv(c, "GL_CULL_FACE_MODE", u) >> : u \in Garbage }
    [] call.kind = "glFrontFace" ->
         { << glGetIntegerv(c, "GL_FRONT_FACE", u) >> : u \in Garbage }
    [] call.kind = "glBindSSBO" ->
         { << glGetIntegerv(c, "GL_SHADER_STORAGE_BUFFER_BINDING", u) >> : u \in Garbage }
    [] call.kind = "glTex2DParameter" ->
         { << glGetIntegerv(c, "GL_TEXTURE_MIN_FILTER", u) >> : u \in Garbage }

\* the entry call of the init-clause
RestoreBegin(call, c, loc) ==
  CASE call.kind = "glUseProgram"      -> glUseProgram(c, call.v[1])
    [] call.kind = "glBindVertexArray" -> glBindVertexArray(c, call.v[1])
    [] call.kind = "glBindTexture"     -> glBindTexture(c, call.t, call.v[1])
    [] call.kind = "glBindTexture2D"   -> glBindTexture(c, "GL_TEXTURE_2D", call.v[1])
    [] call.kind = "glBindBuffer"      -> glBindBuffer(c, call.t, loc[1])
    [] call.kind = "glBindArrayBuffer" -> glBindBuffer(c, "GL_ARRAY_BUFFER", call.v[1])
    [] call.kind = "glEnable"          -> glEnable(c, call.t)
    [] call.kind = "glDisable"         -> glDisable(c, call.t)
    [] call.kind = "glBindFramebuffer" -> glBindFramebuffer(c, call.t, call.v[1])
    [] call.kind = "glBindFBO"         -> glBindFramebuffer(c, "GL_FRAMEBUFFER", call.v[1])
    [] call.kind = "glFramebufferTexture" -> glFramebufferTexture2D(c, call.v[1], call.v[2])
    [] call.kind = "glBindRenderbuffer"   -> glBindRenderbuffer(c, call.v[1])
    [] call.kind = "glFramebufferRenderbuffer" -> glFramebufferRenderbuffer(c, call.v[1])
    [] call.kind = "glViewport"        -> glViewport(c, call.v)
    [] call.kind = "glClearColor"      -> glClearColor(c, call.v)
    [] call.kind = "glBlendFunc"       -> glBlendFunc(c, call.v[1], call.v[2])
    [] call.kind = "glBlendEquation"   -> glBlendEquation(c, call.v[1])
    [] call.kind = "glCullFace"        -> glCullFace(c, call.v[1])
    [] call.kind = "glFrontFace"       -> glFrontFace(c, call.v[1])
    [] call.kind = "glBindSSBO"        ->
         glBindBufferBase(glBindBuffer(c, "GL_SHADER_STORAGE_BUFFER", call.v[1]),
                          "GL_SHADER_STORAGE_BUFFER", call.v[2], call.v[1])
    [] call.kind = "glTex2DParameter"  -> glTexParameter(c, call.v[1])

\* the exit call of the increment expression
RestoreEnd(call, c, loc) ==
  CASE call.kind = "glUseProgram"      -> glUseProgram(c, loc[1])
    [] call.kind = "glBindVertexArray" -> glBindVertexArray(c, loc[1])
    [] call.kind = "glBindTexture"     -> glBindTexture(c, call.t, loc[1])
    [] call.kind = "glBindTexture2D"   -> glBindTexture(c, "GL_TEXTURE_2D", loc[1])
    [] call.kind = "glBindBuffer"      -> glBindBuffer(c, call.t, loc[2])
    [] call.kind = "glBindArrayBuffer" -> glBindBuffer(c, "GL_ARRAY_BUFFER", loc[1])
    [] call.kind \in {"glEnable", "glDisable"} ->
         IF loc[1] # 0 THEN glEnable(c, call.t) ELSE glDisable(c, call.t)
    [] call.kind = "glBindFramebuffer" -> glBindFramebuffer(c, call.t, loc[1])
    [] call.kind = "glBindFBO"         -> glBindFramebuffer(c, "GL_FRAMEBUFFER", loc[1])
    [] call.kind = "glFramebufferTexture" -> glFramebufferTexture2D(c, 0, 0)
    [] call.kind = "glBindRenderbuffer"   -> glBindRenderbuffer(c, 0)
    [] call.kind = "glFramebufferRenderbuffer" -> glFramebufferRenderbuffer(c, 0)
    [] call.kind = "glViewport"        -> glViewport(c, loc)
    [] call.kind = "glClearColor"      -> glClearColor(c, loc)
    [] call.kind = "glBlendFunc"       -> glBlendFunc(c, loc[1], loc[2])
    [] call.kind = "glBlendEquation"   -> glBlendEquation(c, loc[1])
    [] call.kind = "glCullFace"        -> glCullFace(c, loc[1])
    [] call.kind = "glFrontFace"       -> glFrontFace(c, loc[1])
    [] call.kind = "glBindSSBO"        ->
         glBindBuffer(glBindBufferBase(c, "GL_SHADER_STORAGE_BUFFER", call.v[2], loc[1]),
                      "GL_SHADER_STORAGE_BUFFER", loc[1])
    [] call.kind = "glTex2DParameter"  -> glTexParameter(c, loc[1])

\* ----------------------------------------- _unset_* macros, lines 110-230
\* _unset_glFrontFace calls glFrontface, a name the GL API does not have:
\* the front-face slot is not written on entry.
glFrontface(c, o) == c

UnsetBegin(call, c) ==
  CASE call.kind = "glUseProgram"      -> glUseProgram(c, call.v[1])
    [] call.kind = "glBindVertexArray" -> glBindVertexArray(c, call.v[1])
    [] call.kind = "glBindTexture"     -> glBindTexture(c, call.t, call.v[1])
    [] call.kind = "glBindTexture2D"   -> glBindTexture(c, "GL_TEXTURE_2D", call.v[1])
    [] call.kind = "glBindBuffer"      -> glBindBuffer(c, call.t, call.v[1])
    [] call.kind = "glBindArrayBuffer" -> glBindBuffer(c, "GL_ARRAY_BUFFER", call.v[1])
    [] call.kind = "glEnable"          -> glEnable(c, call.t)
    [] call.kind = "glDisable"         -> glDisable(c, call.t)
    [] call.kind = "glBindFramebuffer" -> glBindFramebuffer(c, call.t, call.v[1])
    [] call.kind = "glBindFBO"         -> glBindFramebuffer(c, "GL_FRAMEBUFFER", call.v[1])
    [] call.kind = "glFramebufferTexture" -> glFramebufferTexture2D(c, call.v[1], call.v[2])
    [] call.kind = "glBindRenderbuffer"   -> glBindRenderbuffer(c, call.v[1])
    [] call.kind = "glFramebufferRenderbuffer" -> glFramebufferRenderbuffer(c, call.v[1])
    [] call.kind = "glViewport"        -> glViewport(c, call.v)
    [] call.kind = "glClearColor"      -> glClearColor(c, call.v)
    [] call.kind = "glBlendFunc"       -> glBlendFunc(c, call.v[1], call.v[2])
    [] call.kind = "glBlendEquation"   -> glBlendEquation(c, call.v[1])
    [] call.kind = "glCullFace"        -> glCullFace(c, call.v[1])
    [] call.kind = "glFrontFace"       -> glFrontface(c, call.v[1])
    [] call.kind = "glBindSSBO"        ->
         glBindBufferBase(glBindBuffer(c, "GL_SHADER_STORAGE_BUFFER", call.v[1]),
                          "GL_SHADER_STORAGE_BUFFER", call.v[2], call.v[1])
    [] call.kind = "glTex2DParameter"  -> glTexParameter(c, call.v[1])

\* an end that issues no call
UnsetEnd_keep(call, c) == c

\* an end that repeats the begin
UnsetEnd_begin(call, c) == UnsetBegin(call, c)

UnsetEnd(call, c) ==
  CASE call.kind = "glUseProgram"      -> glUseProgram(c, 0)
    [] call.kind = "glBindVertexArray" -> glBindVertexArray(c, 0)
    [] call.kind = "glBindTexture"     -> glBindTexture(c, call.t, 0)
    [] call.kind = "glBindTexture2D"   -> glBindTexture(c, "GL_TEXTURE_2D", 0)
    [] call.kind = "glBindBuffer"      -> glBindBuffer(c, call.t, 0)
    [] call.kind = "glBindArrayBuffer" -> glBindBuffer(c, "GL_ARRAY_BUFFER", 0)
    [] call.kind = "glEnable"          -> glDisable(c, call.t)
    [] call.kind = "glDisable"         -> glEnable(c, call.t)
    [] call.kind = "glBindFramebuffer" -> glBindFramebuffer(c, call.t, 0)
    [] call.kind = "glBindFBO"         -> glBindFramebuffer(c, "GL_FRAMEBUFFER", 0)
    [] call.kind = "glFramebufferTexture" -> glFramebufferTexture2D(c, 0, 0)
    [] call.kind = "glBindRenderbuffer"   -> glBindRenderbuffer(c, 0)
    [] call.kind = "glFramebufferRenderbuffer" -> glFramebufferRenderbuffer(c, 0)
    [] call.kind = "glViewport"        -> glViewport(c, <<0, 0, 0, 0>>)
    [] call.kind = "glClearColor"      -> glClearColor(c, <<0, 0, 0, 0>>)
    [] call.kind = "glBlendFunc"       -> glBlendFunc(c, 0, 0)
    [] call.kind = "glBlendEquation"   -> glBlendEquation(c, 0)
    [] call.kind = "glCullFace"        -> glCullFace(c, 0)
    [] call.kind = "glFrontFace"       -> glFrontFace(c, 0)
    [] call.kind = "glBindSSBO"        ->
         glBindBuffer(glBindBufferBase(c, "GL_SHADER_STORAGE_BUFFER", call.v[2], 0),
                      "GL_SHADER_STORAGE_BUFFER", 0)
    [] call.kind = "glTex2DParameter"  -> glTexParameter(c, 0)

\* ------------------------------------- uniform scopes, lines 232-241
\* scope_glUniformfv(val,name) and scope_glUniformMatrix4fv(matrix,name) are
\* two for-statements, the second the body of the first.  The first declares
\* UQ(prog) and stores the current program into it; the second reads the
\* uniform's old value, sets the new one and, in its increment expression,
\* sets the old one again.  A matrix is one value here.
UniformKinds == { "glUniformfv", "glUniformMatrix4fv" }
UniformCalls ==
  Site("glUniformfv", {"u_name"}, One) \cup Site("glUniformMatrix4fv", {"u_name"}, One)
\* the first for-statement of a uniform scope
ProgFor(call) == [kind |-> "UQ(prog)", t |-> call.t, v |-> <<>>]

\* << prog >> of the first for-statement
UniformProg(c) == { << glGetIntegerv(c, "GL_CURRENT_PROGRAM", u) >> : u \in Garbage }
\* << prog, old value >> as the second for-statement sees them
UniformLocals(call, c, prog) ==
  { << prog, glGetUniformfv(c, prog, glGetUniformLocation(prog, call.t), u) >> :
    u \in Garbage }
UniformBegin(call, c, loc) ==
  IF call.kind = "glUniformfv"
  THEN glUniform1f(c, glGetUniformLocation(loc[1], call.t), call.v[1])
  ELSE glUniformMatrix4fv(c, glGetUniformLocation(loc[1], call.t), call.v[1])
UniformEnd(call, c, loc) ==
  IF call.kind = "glUniformfv"
  THEN glUniform1f(c, glGetUniformLocation(loc[1], call.t), loc[2])
  ELSE glUniformMatrix4fv(c, glGetUniformLocation(loc[1], call.t), loc[2])

\* ------------------------------------ the GL calls a macro's text issues
\* the functions that read the context
Queries == { "glGetIntegerv", "glGetBooleanv", "glGetFloatv", "glGetTexParameteriv",
             "glGetUniformfv", "glGetUniformLocation" }

\* the name of the call that sets the state of a binding
SetCall(kind) ==
  CASE kind \in {"glBindTexture", "glBindTexture2D"}     -> "glBindTexture"
    [] kind \in {"glBindBuffer", "glBindArrayBuffer"}     -> "glBindBuffer"
    [] kind \in {"glBindFramebuffer", "glBindFBO"}        -> "glBindFramebuffer"
    [] kind = "glFramebufferTexture"                      -> "glFramebufferTexture2D"
    [] kind = "glTex2DParameter"                          -> "glTexParameteri"
    [] kind = "glUniformfv"                               -> "glUniform1f"
    [] OTHER                                              -> kind

\* init-clause of a _restore_ macro, in evaluation order
RestoreEntryCalls(call) ==
  CASE call.kind \in PlainInRestore      -> << SetCall(call.kind) >>
    [] call.kind \in {"glEnable", "glDisable"} -> << "glGetBooleanv", call.kind >>
    [] call.kind = "glClearColor"        -> << "glGetFloatv", "glClearColor" >>
    [] call.kind = "glBlendFunc"         -> << "glGetIntegerv", "glGetIntegerv", "glBlendFunc" >>
    [] call.kind = "glBindSSBO"          -> << "glGetIntegerv", "glBindBuffer", "glBindBufferBase" >>
    [] call.kind = "glTex2DParameter"    -> << "glGetTexParameteriv", "glTexParameteri" >>
    [] OTHER                             -> << "glGetIntegerv", SetCall(call.kind) >>
\* a macro that would leave out its exit call after a failed query
RestoreExitCalls_checked(call) ==
  IF call.kind = "glBindTexture" /\ _scope_gl_map_texture_target_to_binding(call.t) = "0"
  THEN <<>> ELSE << SetCall(call.kind) >>
\* increment expression of a _restore_ macro
RestoreExitCalls(call) ==
  CASE call.kind = "glBindSSBO" -> << "glBindBufferBase", "glBindBuffer" >>
    [] call.kind = "glEnable"   -> << "glEnable or glDisable" >>
    [] call.kind = "glDisable"  -> << "glEnable or glDisable" >>
    [] OTHER                    -> << SetCall(call.kind) >>
\* begin and end of an _unset_ macro
UnsetEntryCalls(call) ==
  CASE call.kind = "glBindSSBO"  -> << "glBindBuffer", "glBindBufferBase" >>
    [] call.kind = "glFrontFace" -> << "glFrontface" >>
    [] OTHER                     -> << SetCall(call.kind) >>
UnsetExitCalls(call) ==
  CASE call.kind = "glBindSSBO" -> << "glBindBufferBase", "glBindBuffer" >>
    [] call.kind = "glEnable"   -> << "glDisable" >>
    [] call.kind = "glDisable"  -> << "glEnable" >>
    [] OTHER                    -> << SetCall(call.kind) >>
\* the second for-statement of a uniform scope
UniformEntryCalls(call) ==
  << "glGetUniformLocation", "glGetUniformfv", "glGetUniformLocation", SetCall(call.kind) >>
\* an exit that reuses the location looked up at entry
UniformExitCalls_cached(call) == << SetCall(call.kind) >>
UniformExitCalls(call) == << "glGetUniformLocation", SetCall(call.kind) >>

\* ------------------------------ SCOPE_GL_RESTORE_STATE dispatch, lines 58-104
\* the uniform scopes are defined outside the #ifdef: one text for both builds
ScopeLocals(m, call, c) ==
  IF m = "RESTORE" THEN RestoreLocals(call, c) ELSE { <<>> }

ScopeBegin(m, call, c, loc) ==
  IF m = "RESTORE" THEN RestoreBegin(call, c, loc) ELSE UnsetBegin(call, c)

ScopeEnd(m, call, c, loc) ==
  IF call.kind \in UniformKinds THEN UniformEnd(call, c, loc)
  ELSE IF call.kind = "UQ(prog)" THEN c
  ELSE IF m = "RESTORE" THEN RestoreEnd(call, c, loc) ELSE UnsetEnd(call, c)

ScopeEntryCalls(m, call) ==
  IF call.kind \in UniformKinds THEN UniformEntryCalls(call)
  ELSE IF call.kind = "UQ(prog)" THEN << "glGetIntegerv" >>
  ELSE IF m = "RESTORE" THEN RestoreEntryCalls(call) ELSE UnsetEntryCalls(call)

ScopeExitCalls(m, call) ==
  IF call.kind \in UniformKinds THEN UniformExitCalls(call)
  ELSE IF call.kind = "UQ(prog)" THEN <<>>
  ELSE IF m = "RESTORE" THEN RestoreExitCalls(call) ELSE UnsetExitCalls(call)

\* ------------------------------------------------------------------ state
VARIABLES
  mode,     \* "RESTORE" when SCOPE_GL_RESTORE_STATE is defined, else "RESET"
  ctx,      \* the GL context: slot -> value
  stack,    \* the open for-statements, outermost first
  pc,       \* "run", or "returned" once the enclosing function has returned
  opened,   \* scope statements opened so far
  directs,  \* direct GL calls issued so far
  log,      \* events of the current outermost scope statement
  last,     \* the scope control has just left (id 0: none)
  first     \* the first scope of the run and the context it found (id 0: none)

vars == << mode, ctx, stack, pc, opened, directs, log, last, first >>

Idx(s) == CHOOSE k \in 1..Len(SlotSeq) : SlotSeq[k] = s

\* a context left behind by earlier rendering code
InitCtx(seed) ==
  [s \in Slots |-> IF s \in Caps THEN (seed + Idx(s)) % 2
                   ELSE (seed + Idx(s)) % (MaxVal + 1)]

NoLast == [id |-> 0]

Init ==
  /\ mode \in {"RESTORE", "RESET"}
  /\ \E seed \in Values : ctx = InitCtx(seed)
  /\ stack = <<>>
  /\ pc = "run"
  /\ opened = 0
  /\ directs = 0
  /\ log = <<>>
  /\ last = NoLast
  /\ first = NoLast

Top == stack[Len(stack)]
\* one event of a scope: which scope (id, call), what happened, by which path
Ev(op, f, via) ==
  [op |-> op, id |-> f.id, call |-> f.call, via |-> via, line |-> f.line]
SetTop(st, f) == [st EXCEPT ![Len(st)] = f]

\* control is inside the braces of the innermost open scope
InBlock == stack # <<>> /\ Top.pc = "body" /\ Top.body = "block"
\* the innermost open scope has been entered and its body statement not begun
AtBody == stack # <<>> /\ Top.pc = "body" /\ Top.body = "none"

\* for (init-clause; ...): the scope-local variables are declared, the query
\* and the entry call run, the loop counter starts at 0
ForInit(call, id, loc) ==
  [id |-> id, call |-> call, loc |-> loc, i |-> 0, pc |-> "cond",
   body |-> "none", via |-> "", pre |-> ctx, line |-> id,
   gl |-> ScopeEntryCalls(mode, call)]

\* (UQ(i) == 0), the condition of every scope's for
LoopGuard(f) == f.i = 0

\* a for whose counter is never advanced
LoopStep_stuck(f) == [f EXCEPT !.pc = "cond"]

\* UQ(i) += 1, the first operand of every scope's increment expression
LoopStep(f) == [f EXCEPT !.i = f.i + 1, !.pc = "cond"]

\* the for-statement on top of st has been left: when it was itself the body
\* statement of the enclosing for, that body has reached its end
Resume(st) ==
  IF st # <<>> /\ st[Len(st)].body = "chain"
  THEN SetTop(st, [st[Len(st)] EXCEPT !.pc = "incr", !.via = "fall"])
  ELSE st

Closed(f, via) ==
  [id |-> f.id, call |-> f.call, loc |-> f.loc, pre |-> f.pre, via |-> via, gl |-> f.gl]

\* UQ(name) is name##__LINE__: two macros on one source line declare the same
\* identifiers, and the inner declaration hides the outer one from the inner
\* for-statement on.  Every macro names only identifiers its own init-clause
\* declares, so its condition and increment expression read its own counter
\* and captured values (the fields of its own frame), with one exception:
\* _restore_glBindBuffer names UQ(old_vbo) without declaring it.  That is the
\* variable of a _restore_glBindArrayBuffer open on the same line when there
\* is one, and a variable of the call site otherwise.
OldVboOnLine(st, ln) ==
  LET decl == { k \in 1..Len(st) : st[k].line = ln /\ st[k].call.kind = "glBindArrayBuffer" }
  IN IF mode = "RESTORE" /\ decl # {}
     THEN { st[CHOOSE k \in decl : \A j \in decl : j <= k].loc[1] }
     ELSE Values
Resolves(call, loc, st, ln) ==
  (mode = "RESTORE" /\ call.kind = "glBindBuffer") => loc[2] \in OldVboOnLine(st, ln)

\* a scope macro is reached: at statement level, inside a block, or as the
\* body statement of the scope opened right before it; same tells whether it
\* stands on the source line of that scope
OpenAt(call, maxDepth, maxOpen, same) ==
  /\ pc = "run"
  /\ Len(stack) < maxDepth
  /\ opened < maxOpen
  /\ stack = <<>> \/ InBlock \/ AtBody
  /\ \E loc \in ScopeLocals(mode, call, ctx) :
       LET id == IF stack = <<>> THEN 1
                 ELSE Cardinality({k \in 1..Len(log) : log[k].op = "enter"}) + 1
           under == IF AtBody THEN SetTop(stack, [Top EXCEPT !.body = "chain"]) ELSE stack
           f == IF same THEN [ForInit(call, id, loc) EXCEPT !.line = Top.line]
                ELSE ForInit(call, id, loc)
       IN /\ Resolves(call, loc, stack, f.line)
          /\ stack' = Append(under, f)
          /\ ctx' = ScopeBegin(mode, call, ctx, loc)
          /\ log' = IF stack = <<>> THEN << Ev("enter", f, "") >>
                    ELSE Append(log, Ev("enter", f, ""))
  /\ opened' = opened + 1
  /\ last' = NoLast
  /\ first' = IF first.id = 0 THEN [id |-> 1, call |-> call, pre |-> ctx] ELSE first
  /\ UNCHANGED << mode, pc, directs >>

\* the macro stands on a source line of its own
Open(call, maxDepth, maxOpen) == OpenAt(call, maxDepth, maxOpen, FALSE)

\* the macro stands on the line of the scope whose body statement it is
OpenSameLine(call, maxDepth, maxOpen) ==
  AtBody /\ OpenAt(call, maxDepth, maxOpen, TRUE)

\* a uniform scope is reached: its first for-statement stores the current
\* program and, its counter being 0, runs its body, the second for-statement
OpenUniform(call, maxDepth, maxOpen) ==
  /\ pc = "run"
  /\ Len(stack) + 2 <= maxDepth
  /\ opened < maxOpen
  /\ stack = <<>> \/ InBlock \/ AtBody
  /\ \E p \in UniformProg(ctx) : \E loc \in UniformLocals(call, ctx, p[1]) :
       LET id == IF stack = <<>> THEN 1
                 ELSE Cardinality({k \in 1..Len(log) : log[k].op = "enter"}) + 1
           under == IF AtBody THEN SetTop(stack, [Top EXCEPT !.body = "chain"]) ELSE stack
           outer == [ForInit(ProgFor(call), id, p) EXCEPT !.pc = "body", !.body = "chain"]
           inner == [ForInit(call, id + 1, loc) EXCEPT !.line = id]
       IN /\ stack' = under \o << outer, inner >>
          /\ ctx' = UniformBegin(call, ctx, loc)
          /\ log' = (IF stack = <<>> THEN <<>> ELSE log)
                      \o << Ev("enter", outer, ""), Ev("body", outer, ""),
                            Ev("enter", inner, "") >>
  /\ opened' = opened + 1
  /\ last' = NoLast
  /\ first' = IF first.id = 0 THEN [id |-> 1, call |-> call, pre |-> ctx] ELSE first
  /\ UNCHANGED << mode, pc, directs >>

\* (UQ(i) == 0): true runs the body statement, false leaves the for
ForCond ==
  /\ pc = "run"
  /\ stack # <<>>
  /\ Top.pc = "cond"
  /\ IF LoopGuard(Top)
     THEN /\ stack' = SetTop(stack, [Top EXCEPT !.pc = "body"])
          /\ log' = Append(log, Ev("body", Top, ""))
          /\ last' = NoLast
     ELSE /\ stack' = Resume(SubSeq(stack, 1, Len(stack) - 1))
          /\ log' = Append(log, Ev("leave", Top, Top.via))
          /\ last' = Closed(Top, Top.via)
  /\ UNCHANGED << mode, ctx, pc, opened, directs, first >>

\* the body statement is a block: {
BeginBlock ==
  /\ pc = "run"
  /\ AtBody
  /\ stack' = SetTop(stack, [Top EXCEPT !.body = "block"])
  /\ log' = Append(log, Ev("begin", Top, ""))
  /\ last' = NoLast
  /\ UNCHANGED << mode, ctx, pc, opened, directs, first >>

\* a GL call written directly in the block, outside any scope macro
DirectCall(slot, v) ==
  /\ pc = "run"
  /\ InBlock
  /\ directs < MaxDirect
  /\ ctx' = GLSet(ctx, slot, v)
  /\ directs' = directs + 1
  /\ last' = NoLast
  /\ UNCHANGED << mode, stack, pc, opened, log, first >>

\* } : control reaches the end of the block; the increment expression is next
EndBlock ==
  /\ pc = "run"
  /\ InBlock
  /\ stack' = SetTop(stack, [Top EXCEPT !.pc = "incr", !.via = "fall"])
  /\ log' = Append(log, Ev("end", Top, "fall"))
  /\ last' = NoLast
  /\ UNCHANGED << mode, ctx, pc, opened, directs, first >>

\* continue; : jumps to the increment expression of the innermost for
Continue ==
  /\ pc = "run"
  /\ InBlock
  /\ stack' = SetTop(stack, [Top EXCEPT !.pc = "incr", !.via = "continue"])
  /\ log' = Append(log, Ev("end", Top, "continue"))
  /\ last' = NoLast
  /\ UNCHANGED << mode, ctx, pc, opened, directs, first >>

\* break; : leaves the innermost for; its increment expression is not evaluated
Break ==
  /\ pc = "run"
  /\ InBlock
  /\ stack' = Resume(SubSeq(stack, 1, Len(stack) - 1))
  /\ log' = log \o << Ev("end", Top, "break"), Ev("leave", Top, "break") >>
  /\ last' = Closed(Top, "break")
  /\ UNCHANGED << mode, ctx, pc, opened, directs, first >>

\* return; : leaves every open for of the function; no increment expression
\* is evaluated
Return ==
  /\ pc = "run"
  /\ InBlock
  /\ stack' = <<>>
  /\ pc' = "returned"
  /\ log' = log \o << Ev("end", Top, "return") >>
                \o [k \in 1..Len(stack) |->
                      Ev("leave", stack[Len(stack) + 1 - k], "return")]
  /\ last' = Closed(Top, "return")
  /\ UNCHANGED << mode, ctx, opened, directs, first >>

\* the increment expression: UQ(i) += 1, then the exit call
ForIncr ==
  /\ pc = "run"
  /\ stack # <<>>
  /\ Top.pc = "incr"
  /\ stack' = SetTop(stack, [LoopStep(Top) EXCEPT
                               !.gl = Top.gl \o ScopeExitCalls(mode, Top.call)])
  /\ ctx' = ScopeEnd(mode, Top.call, ctx, Top.loc)
  /\ log' = Append(log, Ev("exit", Top, ""))
  /\ last' = NoLast
  /\ UNCHANGED << mode, pc, opened, directs, first >>

\* ------------------------------------------- what a call site addresses
\* the slots the macro's name and arguments address (lines 34-56) ...
SlotsOf(call) ==
  CASE call.kind = "glUseProgram"      -> << "GL_CURRENT_PROGRAM" >>
    [] call.kind = "glBindVertexArray" -> << "GL_VERTEX_ARRAY_BINDING" >>
    [] call.kind = "glBindTexture"     ->
         IF call.t \in TexTargets THEN << GLTexSlot(call.t) >> ELSE <<>>
    [] call.kind = "glBindTexture2D"   -> << "GL_TEXTURE_BINDING_2D" >>
    [] call.kind = "glBindBuffer"      -> << GLBufSlot(call.t) >>
    [] call.kind = "glBindArrayBuffer" -> << "GL_ARRAY_BUFFER_BINDING" >>
    [] call.kind \in {"glEnable", "glDisable"} -> << call.t >>
    [] call.kind \in {"glBindFramebuffer", "glBindFBO"} -> << "GL_FRAMEBUFFER_BINDING" >>
    [] call.kind = "glFramebufferTexture" ->
         << "COLOR_ATTACHMENT0_TEXTURE", "COLOR_ATTACHMENT0_LEVEL" >>
    [] call.kind = "glBindRenderbuffer"   -> << "GL_RENDERBUFFER_BINDING" >>
    [] call.kind = "glFramebufferRenderbuffer" -> << "DEPTH_ATTACHMENT_RENDERBUFFER" >>
    [] call.kind = "glViewport"        -> ViewSlots
    [] call.kind = "glClearColor"      -> ClearSlots
    [] call.kind = "glBlendFunc"       -> << "GL_BLEND_SRC", "GL_BLEND_DST" >>
    [] call.kind = "glBlendEquation"   -> << "GL_BLEND_EQUATION" >>
    [] call.kind = "glCullFace"        -> << "GL_CULL_FACE_MODE" >>
    [] call.kind = "glFrontFace"       -> << "GL_FRONT_FACE" >>
    [] call.kind = "glBindSSBO"        ->
         << "GL_SHADER_STORAGE_BUFFER_BINDING", GLIndexedSlot(call.v[2]) >>
    [] call.kind = "glTex2DParameter"  -> << "GL_TEXTURE_MIN_FILTER" >>

\* ... and the values the caller asks them to hold inside the scope
NewOf(call) ==
  CASE call.kind = "glEnable"   -> << 1 >>
    [] call.kind = "glDisable"  -> << 0 >>
    [] call.kind = "glBindSSBO" -> << call.v[1], call.v[1] >>
    [] call.kind = "glBindTexture" /\ call.t \notin TexTargets -> <<>>
    [] OTHER -> call.v

SlotSetOf(call) == { SlotsOf(call)[k] : k \in 1..Len(SlotsOf(call)) }

\* -------------------------------------------------------- specifications
MaxDepth == 1        \* nesting depth explored by Spec

DirectSlots(calls) == UNION { SlotSetOf(call) : call \in calls }
DirectValues(s) == IF s \in Caps THEN 0..1 ELSE Values

\* every binding, one scope open at a time, scopes in sequence
Next ==
  \/ \E call \in Calls : Open(call, MaxDepth, MaxScopes)
  \/ ForCond
  \/ BeginBlock
  \/ \E s \in DirectSlots(Calls) : \E v \in DirectValues(s) : DirectCall(s, v)
  \/ EndBlock
  \/ Continue
  \/ Break
  \/ Return
  \/ ForIncr

Spec == Init /\ [][Next]_vars

\* the bindings used when scopes are nested
NestCalls ==
  Site("glUseProgram", {""}, One)
    \cup Site("glBindTexture", {"GL_TEXTURE_2D", "GL_TEXTURE_CUBE_MAP"}, One)
    \cup Site("glBindTexture2D", {""}, One)
    \cup Site("glEnable", Caps, {<<>>})
    \cup Site("glDisable", Caps, {<<>>})

NextNest ==
  \/ \E call \in NestCalls : Open(call, MaxNest, MaxNest)
  \/ ForCond
  \/ BeginBlock
  \/ \E s \in DirectSlots(NestCalls) : \E v \in DirectValues(s) : DirectCall(s, v)
  \/ EndBlock
  \/ Continue
  \/ Break
  \/ Return
  \/ ForIncr

SpecNest == Init /\ [][NextNest]_vars

\* the same binding opened and closed again and again
SameBinding(call) ==
  IF first.id = 0 THEN TRUE
  ELSE /\ call.kind = first.call.kind
       /\ call.t = first.call.t
       /\ SlotsOf(call) = SlotsOf(first.call)

\* ... each around an empty block, none inside another (depth 1)
NextSeq ==
  \/ \E call \in Calls : SameBinding(call) /\ Open(call, 1, MaxSeq)
  \/ ForCond
  \/ BeginBlock
  \/ EndBlock
  \/ ForIncr

SpecSeq == Init /\ [][NextSeq]_vars

\* scope_glBindTexture on every texture target and on enums that are none
OtherEnums == { BadTarget, "GL_FRAMEBUFFER", "GL_TEXTURE_CUBE_MAP_POSITIVE_X", "GL_ARRAY_BUFFER" }
TexCalls == Site("glBindTexture", TexTargets \cup OtherEnums, One)

NextTex ==
  \/ \E call \in TexCalls : Open(call, 1, MaxScopes)
  \/ ForCond
  \/ BeginBlock
  \/ EndBlock
  \/ ForIncr

SpecTex == Init /\ [][NextTex]_vars

\* the uniform scopes, with the active program changed inside the block
NextUniform ==
  \/ \E call \in UniformCalls : OpenUniform(call, MaxNest, MaxScopes)
  \/ ForCond
  \/ BeginBlock
  \/ \E v \in Values : DirectCall("GL_CURRENT_PROGRAM", v)
  \/ EndBlock
  \/ Continue
  \/ Break
  \/ Return
  \/ ForIncr

SpecUniform == Init /\ [][NextUniform]_vars

\* misuse: scope_glBindTexture on enums that are no texture target, and
\* uniform scopes while no program or a program is active; one scope open at
\* a time (a uniform scope is two for-statements)
MisuseCalls == Site("glBindTexture", {BadTarget, "GL_TEXTURE_2D"}, One)

NextMisuse ==
  \/ \E call \in MisuseCalls : Open(call, 1, MaxScopes)
  \/ \E call \in UniformCalls : OpenUniform(call, 2, MaxScopes)
  \/ ForCond
  \/ BeginBlock
  \/ \E v \in Values : DirectCall("GL_CURRENT_PROGRAM", v)
  \/ EndBlock
  \/ Continue
  \/ ForIncr

SpecMisuse == Init /\ [][NextMisuse]_vars

\* the attachment and renderbuffer bindings, one scope open at a time, the
\* block writing the scope's own slots directly
AttachCalls == { call \in Calls : call.kind \in PlainInRestore }

NextAttach ==
  \/ \E call \in AttachCalls : Open(call, 1, MaxScopes)
  \/ ForCond
  \/ BeginBlock
  \/ \E s \in DirectSlots(AttachCalls) : \E v \in DirectValues(s) :
       InBlock /\ s \in SlotSetOf(Top.call) /\ DirectCall(s, v)
  \/ EndBlock
  \/ Continue
  \/ ForIncr

SpecAttach == Init /\ [][NextAttach]_vars

\* scopes chained on one source line or on lines of their own
LineCalls ==
  Site("glUseProgram", {""}, One)
    \cup Site("glBindTexture2D", {""}, One)
    \cup Site("glBindArrayBuffer", {""}, One)
    \cup Site("glBindBuffer", {"GL_ARRAY_BUFFER"}, One)
    \cup Site("glEnable", Caps, {<<>>})
    \cup Site("glDisable", Caps, {<<>>})

NextLine ==
  \/ \E call \in LineCalls : Open(call, MaxNest, MaxNest)
  \/ \E call \in LineCalls : OpenSameLine(call, MaxNest, MaxNest)
  \/ ForCond
  \/ BeginBlock
  \/ EndBlock
  \/ Continue
  \/ ForIncr

SpecLine == Init /\ [][NextLine]_vars

\* a pair of scopes on one slot, the second inside the first or after it:
\* a scope opened inside another addresses the slots of the outer one
ClobberCalls ==
  Site("glUseProgram", {""}, One)
    \cup Site("glBindTexture2D", {""}, One)
    \cup Site("glEnable", Caps, {<<>>})
    \cup Site("glDisable", Caps, {<<>>})
OnOuterSlot(call) ==
  IF stack = <<>> THEN TRUE ELSE SlotsOf(call) = SlotsOf(stack[1].call)

NextClobber ==
  \/ \E call \in ClobberCalls : OnOuterSlot(call) /\ Open(call, 2, 2)
  \/ ForCond
  \/ BeginBlock
  \/ \E s \in DirectSlots(ClobberCalls) : \E v \in DirectValues(s) : DirectCall(s, v)
  \/ EndBlock
  \/ Continue
  \/ Break
  \/ Return
  \/ ForIncr

SpecClobber == Init /\ [][NextClobber]_vars

\* ================================================================ properties
\* how often op happened to scope id, and where in the log
Count(op, id) == Cardinality({ k \in 1..Len(log) : log[k].op = op /\ log[k].id = id })
Pos(op, id) == CHOOSE k \in 1..Len(log) : log[k].op = op /\ log[k].id = id
\* the exit call of the scope that was just left has run
ExitRan == last.id # 0 /\ last.via \in {"fall", "continue"}

\* C1: whenever control has left a scope, by whatever path (fall-through,
\* continue, break, return), that scope's exit action has run exactly once.
C1_ExitOnEveryPath ==
  \A k \in 1..Len(log) :
    log[k].op = "leave" => Count("exit", log[k].id) = 1

\* C2: a scope whose body falls through to its end runs its enter action
\* once and before the body, the body once, the exit action once and after
\* the body, and is then left: no scope whose body fell through runs its body
\* or its exit action a second time.
C2_FallThroughOnce ==
  /\ \A k \in 1..Len(log) :
       (log[k].op = "leave" /\ log[k].via = "fall") =>
         LET id == log[k].id
         IN /\ Count("enter", id) = 1
            /\ Count("body", id) = 1
            /\ Count("exit", id) = 1
            /\ Pos("enter", id) < Pos("body", id)
            /\ Pos("body", id) < Pos("exit", id)
            /\ Pos("exit", id) < k
            /\ \A j \in 1..Len(log) :
                 (log[j].op = "end" /\ log[j].id = id) => j < Pos("exit", id)
  /\ \A d \in 1..Len(stack) :
       stack[d].via = "fall" =>
         /\ Count("body", stack[d].id) = 1
         /\ Count("exit", stack[d].id) <= 1
         /\ (Count("exit", stack[d].id) = 1 => ~LoopGuard(stack[d]))

\* a value-capturing scope has been left after its block fell through
C2_Witness ==
  /\ mode = "RESTORE"
  /\ last.id # 0
  /\ last.via = "fall"
  /\ last.call.kind = "glViewport"
  /\ Count("exit", last.id) = 1

\* every slot the scope that was just left addresses holds what it held when
\* the scope was opened
Restored == \A s \in SlotSetOf(last.call) : ctx[s] = last.pre[s]

\* C3: in a RESTORE build, once a scope has run its exit action and control
\* has left it, every slot the binding addresses holds the value it held
\* before the scope was opened, whatever the block wrote in between.
C3_RestoreModeRestores ==
  (mode = "RESTORE" /\ ExitRan) => Restored

\* C4: the documentation promises restoring in every build; stated for the
\* build it singles out, the default one (SCOPE_GL_RESTORE_STATE undefined):
\* once a scope has run its exit action and control has left it, every slot
\* the binding addresses holds the value it held just before entry.
C4_DefaultBuildRestores ==
  (mode = "RESET" /\ ExitRan) => Restored

\* C5: in a RESET build, after control has left a scope every slot the
\* binding addresses holds the neutral value (unbound, disabled, zero: 0).
C5_ResetLeavesNeutral ==
  (mode = "RESET" /\ last.id # 0) =>
    \A s \in SlotSetOf(last.call) : ctx[s] = 0

\* the scopes opened one after another around the same block: those entered
\* before the block begins
FirstBegin == CHOOSE k \in 1..Len(log) :
                /\ log[k].op = "begin"
                /\ \A j \in 1..(k - 1) : log[j].op # "begin"
ChainLen == Cardinality({ k \in 1..(FirstBegin - 1) : log[k].op = "enter" })
Finished == stack = <<>> /\ last.id # 0 /\ ChainLen >= 2

\* C6: when scopes S1..Sn were opened one after another around one block and
\* control has left the whole statement, the enter actions ran in the order
\* S1..Sn, no exit action ran before the block had ended, and every one of
\* S1..Sn ran its exit action exactly once, in the order Sn..S1.
C6_ExitsInReverseOrder ==
  Finished =>
    \A j \in 1..ChainLen :
      /\ Count("enter", j) = 1
      /\ Count("exit", j) = 1
      /\ (j > 1 => Pos("enter", j - 1) < Pos("enter", j))
      /\ Pos("end", ChainLen) < Pos("exit", j)
      /\ (j > 1 => Pos("exit", j) < Pos("exit", j - 1))

\* C7: in both builds and for every binding, when the body of a scope starts
\* every slot the binding addresses holds the value the caller passed, and no
\* other slot has changed.
C7_BodySeesNewValue ==
  AtBody =>
    /\ \A k \in 1..Len(SlotsOf(Top.call)) :
         ctx[SlotsOf(Top.call)[k]] = NewOf(Top.call)[k]
    /\ \A s \in Slots \ SlotSetOf(Top.call) : ctx[s] = Top.pre[s]

\* C8: in a RESTORE build, once a scope_glEnable or scope_glDisable has run
\* its exit action and control has left it, the capability is enabled if it
\* was enabled before entry and disabled if it was disabled before entry.
C8_CapabilityRestored ==
  (mode = "RESTORE" /\ ExitRan /\ last.call.kind \in {"glEnable", "glDisable"}) =>
    ctx[last.call.t] = last.pre[last.call.t]

\* the outer and the inner scope_glBindTexture of a nest on two targets
IsTex(call) == call.kind = "glBindTexture" /\ call.t \in TexTargets
TwoTargets ==
  /\ Len(log) >= 2
  /\ Count("enter", 2) = 1
  /\ IsTex(log[1].call)
  /\ IsTex(log[Pos("enter", 2)].call)
  /\ log[1].call.t # log[Pos("enter", 2)].call.t
OuterTex == log[1].call
InnerTex == log[Pos("enter", 2)].call

\* C9: for scope_glBindTexture nested on two different targets (outer binds
\* A to X, inner binds B to Y) and no direct call in between: entering and
\* leaving the inner scope leaves every slot but B's as it was; after the
\* inner scope is left B holds its pre-inner value and A still holds X; after
\* the outer scope is left A holds its original value.
C9_NestedTargetsIndependent ==
  (TwoTargets /\ directs = 0) =>
    /\ (Len(stack) = 2 /\ Top.id = 2) =>
         \A s \in Slots \ SlotSetOf(InnerTex) : ctx[s] = Top.pre[s]
    /\ (last.id = 2 /\ Len(stack) = 1) =>
         /\ ctx[GLTexSlot(InnerTex.t)] = last.pre[GLTexSlot(InnerTex.t)]
         /\ ctx[GLTexSlot(OuterTex.t)] = OuterTex.v[1]
    /\ (last.id = 1 /\ stack = <<>>) =>
         /\ ctx[GLTexSlot(OuterTex.t)] = last.pre[GLTexSlot(OuterTex.t)]
         /\ \A s \in Slots \ (SlotSetOf(InnerTex) \cup SlotSetOf(OuterTex)) :
              ctx[s] = last.pre[s]

\* C10: in a RESTORE build, after any number of scopes of one binding have
\* been opened and closed one after another, each around an empty block, the
\* slots of that binding hold what they held before the first scope.
C10_SequenceRestores ==
  (mode = "RESTORE" /\ stack = <<>> /\ first.id # 0) =>
    \A s \in SlotSetOf(first.call) : ctx[s] = first.pre[s]

\* C11: _scope_gl_map_texture_target_to_binding maps each of the 11 texture
\* targets to the binding enum of that same target, distinct targets to
\* distinct enums, and every other enum to the sentinel 0; so the value a
\* RESTORE scope_glBindTexture captures for a texture target is the texture
\* bound to that target before entry.
C11_TargetToBinding ==
  /\ \A t \in TexTargets : _scope_gl_map_texture_target_to_binding(t) = GLTexSlot(t)
  /\ \A t, u \in TexTargets :
       t # u => _scope_gl_map_texture_target_to_binding(t)
                  # _scope_gl_map_texture_target_to_binding(u)
  /\ \A t \in OtherEnums : _scope_gl_map_texture_target_to_binding(t) = "0"
  /\ \A d \in 1..Len(stack) :
       (mode = "RESTORE" /\ IsTex(stack[d].call)) =>
         stack[d].loc[1] = stack[d].pre[GLTexSlot(stack[d].call.t)]

\* a RESTORE scope on the cube-map-array target has captured its old binding
C11_Witness ==
  /\ mode = "RESTORE"
  /\ AtBody
  /\ Top.call.kind = "glBindTexture"
  /\ Top.call.t = "GL_TEXTURE_CUBE_MAP_ARRAY"
  /\ Top.pre["GL_TEXTURE_BINDING_CUBE_MAP_ARRAY"] # Top.pre["GL_TEXTURE_BINDING_CUBE_MAP"]

\* C12: once a scope_glBindSSBO(ssbo, binding) has run its exit action and
\* control has left it, in a RESTORE build the generic shader-storage binding
\* and the indexed binding point each hold the buffer they held before entry,
\* and in a RESET build both hold 0.
C12_SSBOUndoesBoth ==
  (ExitRan /\ last.call.kind = "glBindSSBO" /\ directs = 0) =>
    LET generic == "GL_SHADER_STORAGE_BUFFER_BINDING"
        indexed == GLIndexedSlot(last.call.v[2])
    IN IF mode = "RESTORE"
       THEN ctx[generic] = last.pre[generic] /\ ctx[indexed] = last.pre[indexed]
       ELSE ctx[generic] = 0 /\ ctx[indexed] = 0

\* C13: a uniform scope looks the uniform's location up against the program
\* that is active at that moment, on entry and on exit: when the exit action
\* has run while a linked program was active, the named uniform of that
\* program holds the value the scope captured at entry.
C13_LookupAgainstActiveProgram ==
  (ExitRan /\ last.call.kind \in UniformKinds
     /\ ctx["GL_CURRENT_PROGRAM"] \in Programs) =>
    LET active == ctx["GL_CURRENT_PROGRAM"]
    IN ctx[UniformSlot(active, glGetUniformLocation(active, last.call.t))] = last.loc[2]

\* the query in the init-clause of scope f failed: the texture target has no
\* binding enum, or the stored program id names no program
QueryFailed(f) ==
  \/ /\ mode = "RESTORE"
     /\ f.call.kind = "glBindTexture"
     /\ _scope_gl_map_texture_target_to_binding(f.call.t) = "0"
  \/ /\ f.call.kind \in UniformKinds
     /\ f.loc[1] \notin Programs
\* how often scope f has issued the set call of its binding
SetsIssued(f) == Cardinality({ k \in 1..Len(f.gl) : f.gl[k] = SetCall(f.call.kind) })
\* the context after the entry set call, issued directly on context c
DirectSet(call, c) ==
  IF call.kind = "glBindTexture" THEN glBindTexture(c, call.t, call.v[1])
  ELSE glUniform1f(c, glGetUniformLocation(c["GL_CURRENT_PROGRAM"], call.t), call.v[1])

\* C14: a scope whose entry query failed signals nothing and goes on: it has
\* issued its set call when the body starts, leaving the context as the
\* direct call would; it runs the body once; and when its block has ended it
\* has issued its set call a second time, in the exit action, which ran once.
C14_NoErrorSignalled ==
  /\ \A d \in 1..Len(stack) :
       QueryFailed(stack[d]) =>
         /\ SetsIssued(stack[d]) >= 1
         /\ Count("body", stack[d].id) <= 1
         /\ (d = Len(stack) /\ AtBody) => ctx = DirectSet(Top.call, Top.pre)
  /\ (ExitRan /\ QueryFailed(last)) =>
       /\ SetsIssued(last) = 2
       /\ Count("body", last.id) = 1
       /\ Count("exit", last.id) = 1

\* a RESTORE scope_glBindTexture on an enum that is no texture target has been
\* left after its block ended
C14_Witness ==
  /\ mode = "RESTORE"
  /\ ExitRan
  /\ last.call.kind = "glBindTexture"
  /\ last.call.t = BadTarget
  /\ QueryFailed(last)

\* C15: the build mode governs every scope: in a RESET build no scope issues
\* a query call, at entry or at exit; in a RESTORE build every scope issues a
\* query before its entry set call.
C15_ModeGovernsQueries ==
  \A d \in 1..Len(stack) :
    IF mode = "RESET"
    THEN \A k \in 1..Len(stack[d].gl) : stack[d].gl[k] \notin Queries
    ELSE stack[d].gl[1] \in Queries

\* the scope opened second sits inside the first and addresses the same slots
SameSlotNest ==
  /\ Len(log) >= 2
  /\ Count("enter", 2) = 1
  /\ SlotsOf(log[1].call) = SlotsOf(log[Pos("enter", 2)].call)

\* C16: in a RESTORE build, for two scopes nested on the same slot: once the
\* inner scope has run its exit action and control has left it the slot holds
\* the value it held at inner entry (V1 when nothing wrote it in between),
\* and once the outer scope has done so too the slot holds the initial value
\* V0, whatever the blocks wrote directly.
C16_SameSlotNesting ==
  (mode = "RESTORE" /\ SameSlotNest) =>
    /\ (last.id = 2 /\ Len(stack) = 1 /\ ExitRan) =>
         \A s \in SlotSetOf(last.call) : ctx[s] = last.pre[s]
    /\ (Len(stack) = 2 /\ Top.id = 2 /\ directs = 0) =>
         \A k \in 1..Len(SlotsOf(Top.call)) :
           Top.pre[SlotsOf(Top.call)[k]] = NewOf(log[1].call)[k]
    /\ (last.id = 1 /\ stack = <<>> /\ ExitRan /\ Count("exit", 2) = 1) =>
         \A s \in SlotSetOf(last.call) : ctx[s] = last.pre[s]

\* C17: in a RESTORE build the value scope_glBindFramebuffer(target, fbo)
\* captures at entry is the framebuffer bound to target at that moment, and
\* once its exit action has run and control has left it that framebuffer is
\* bound again.
C17_FramebufferRestored ==
  mode = "RESTORE" =>
    /\ \A d \in 1..Len(stack) :
         stack[d].call.kind = "glBindFramebuffer" =>
           stack[d].loc[1] = stack[d].pre["GL_FRAMEBUFFER_BINDING"]
    /\ (ExitRan /\ last.call.kind = "glBindFramebuffer") =>
         ctx["GL_FRAMEBUFFER_BINDING"] = last.pre["GL_FRAMEBUFFER_BINDING"]

\* the generic call sites that a convenience macro abbreviates, and the
\* convenience call site with the same argument
HasConvenience(call) ==
  \/ call.kind = "glBindTexture" /\ call.t = "GL_TEXTURE_2D"
  \/ call.kind = "glBindBuffer" /\ call.t = "GL_ARRAY_BUFFER"
  \/ call.kind = "glBindFramebuffer" /\ call.t = "GL_FRAMEBUFFER"
Convenience(call) ==
  [kind |-> CASE call.kind = "glBindTexture"     -> "glBindTexture2D"
              [] call.kind = "glBindBuffer"      -> "glBindArrayBuffer"
              [] call.kind = "glBindFramebuffer" -> "glBindFBO",
   t |-> "", v |-> call.v]
\* the context inside the body, and after the exit action of a scope whose
\* block wrote nothing, when call is opened on context c
InsideOf(call, c) == { ScopeBegin(mode, call, c, loc) : loc \in ScopeLocals(mode, call, c) }
AfterOf(call, c) ==
  { ScopeEnd(mode, call, ScopeBegin(mode, call, c, loc), loc) :
    loc \in ScopeLocals(mode, call, c) }

\* C18: a generic scope at the fixed target of a convenience macro behaves as
\* that convenience macro does from the same initial context, in both builds:
\* the same context inside the body and the same context after exit.
C18_ConvenienceEqualsGeneric ==
  /\ (AtBody /\ HasConvenience(Top.call)) =>
       InsideOf(Convenience(Top.call), Top.pre) = {ctx}
  /\ (ExitRan /\ HasConvenience(last.call) /\ directs = 0) =>
       AfterOf(Convenience(last.call), last.pre) = {ctx}

\* C19: for scope_glFramebufferTexture, scope_glFramebufferRenderbuffer and
\* scope_glBindRenderbuffer both builds issue the same calls with the same
\* effect: the set call at entry, the set call with 0 at exit, no query and
\* no captured value; once the exit action has run the slot holds 0.
C19_AttachmentsSameInBothModes ==
  /\ \A d \in 1..Len(stack) :
       stack[d].call.kind \in PlainInRestore =>
         /\ stack[d].loc = <<>>
         /\ stack[d].gl[1] = SetCall(stack[d].call.kind)
         /\ \A k \in 1..Len(stack[d].gl) : stack[d].gl[k] \notin Queries
  /\ (AtBody /\ Top.call.kind \in PlainInRestore) =>
       /\ ctx = ScopeBegin("RESTORE", Top.call, Top.pre, <<>>)
       /\ ctx = ScopeBegin("RESET", Top.call, Top.pre, <<>>)
  /\ (ExitRan /\ last.call.kind \in PlainInRestore) =>
       /\ last.gl = << SetCall(last.call.kind), SetCall(last.call.kind) >>
       /\ ScopeEntryCalls("RESTORE", last.call) = ScopeEntryCalls("RESET", last.call)
       /\ ScopeExitCalls("RESTORE", last.call) = ScopeExitCalls("RESET", last.call)
       /\ ScopeEnd("RESTORE", last.call, last.pre, <<>>)
            = ScopeEnd("RESET", last.call, last.pre, <<>>)
       /\ \A s \in SlotSetOf(last.call) : ctx[s] = 0

\* a RESTORE scope_glFramebufferTexture has run its exit action where a
\* texture was attached before entry
C19_Witness ==
  /\ mode = "RESTORE"
  /\ ExitRan
  /\ last.call.kind = "glFramebufferTexture"
  /\ last.pre["COLOR_ATTACHMENT0_TEXTURE"] # 0
  /\ ctx["COLOR_ATTACHMENT0_TEXTURE"] = 0

\* the scope opened second stands on the source line of the first
SameLinePair ==
  /\ Len(log) >= 2
  /\ Count("enter", 2) = 1
  /\ log[Pos("enter", 2)].line = log[1].line

\* C20: two scopes on one source line around one block do not collide: each
\* runs its body and its exit action exactly once and uses its own captured
\* value, so that in a RESTORE build the inner scope's slots hold what they
\* held at inner entry once the inner scope has been left, and every slot
\* either scope addresses holds what it held before the outer scope once
\* both have been left.
C20_SameLineNoCollision ==
  SameLinePair =>
    /\ (last.id = 2 /\ ExitRan) =>
         /\ Count("body", 2) = 1 /\ Count("exit", 2) = 1
         /\ mode = "RESTORE" =>
              \A s \in SlotSetOf(last.call) : ctx[s] = last.pre[s]
    /\ (last.id = 1 /\ stack = <<>> /\ ExitRan /\ Count("exit", 2) = 1) =>
         /\ Count("body", 1) = 1 /\ Count("exit", 1) = 1
         /\ mode = "RESTORE" =>
              \A s \in SlotSetOf(log[1].call) \cup SlotSetOf(log[Pos("enter", 2)].call) :
                ctx[s] = last.pre[s]
\* the calls of the uniform scope whose second for-statement was just left:
\* those of its first for-statement, still open, and those of the second
PairCalls == Top.gl \o last.gl
Issued(name) == Cardinality({ k \in 1..Len(PairCalls) : PairCalls[k] = name })
\* entry and exit of a uniform scope have both run
UniformPair ==
  /\ ExitRan
  /\ last.call.kind \in UniformKinds
  /\ stack # <<>>
  /\ Top.id = last.id - 1

\* C21: every entry/exit pair of a uniform scope issues exactly one
\* current-program query, at most two uniform-location lookups and exactly
\* one read-back of the uniform's value.
C21_UniformPairCost ==
  UniformPair =>
    /\ Issued("glGetIntegerv") = 1
    /\ Issued("glGetUniformLocation") <= 2
    /\ Issued("glGetUniformfv") = 1

\* C21, amended: every entry/exit pair of a uniform scope issues exactly one
\* current-program query, exactly three uniform-location lookups (two in the
\* entry, for the read-back and for the set call, and one in the exit) and
\* exactly one read-back of the uniform's value.
C21_UniformPairCostThree ==
  UniformPair =>
    /\ Issued("glGetIntegerv") = 1
    /\ Issued("glGetUniformLocation") = 3
    /\ Cardinality({ k \in 1..Len(last.gl) : k <= 4 /\ last.gl[k] = "glGetUniformLocation" }) = 2
    /\ Issued("glGetUniformfv") = 1

C21_Witness ==
  /\ UniformPair
  /\ Top.call.kind = "UQ(prog)"
  /\ last.call.kind = "glUniformMatrix4fv"

\* the scope that was left last since the outermost open scope was entered
Leaves == { k \in 1..Len(log) : log[k].op = "leave" }
LastLeave == log[CHOOSE k \in Leaves : \A j \in Leaves : j <= k]
\* what the end of an _unset_ macro leaves in the slot: 0 (nothing bound,
\* disabled), and for scope_glDisable enabled
ResetValue(call) == IF call.kind = "glDisable" THEN 1 ELSE 0
\* in a RESET build the outermost scope is open, its exit action has not run,
\* the scope left last was nested in it on the same slot and has run its exit
\* action, and nothing has written the slot directly since
InnerClosed ==
  /\ mode = "RESET"
  /\ Len(stack) = 1
  /\ Top.id = 1
  /\ Count("exit", 1) = 0
  /\ Leaves # {}
  /\ LastLeave.via \in {"fall", "continue"}
  /\ SlotsOf(LastLeave.call) = SlotsOf(Top.call)
  /\ last.id # 0 \/ directs = 0

====
